---- MODULE Spec2Model ----
(***************************************************************************)
(* A model of sc2reader/objects.py: the Attribute decoder, the Team /      *)
(* Player identity objects and their derived views (url, result, hash),    *)
(* the score-screen Graph, and the containers of Team, Person and          *)
(* PlayerSummary instances.                                                *)
(*                                                                         *)
(* Strings are sequences of one-character strings, so that stripping,      *)
(* formatting, joining and sorting are computed character by character.    *)
(* A raised exception is a record [exc |-> <exception type>].              *)
(***************************************************************************)
EXTENDS Integers, Sequences, FiniteSets, TLC

VARIABLES
    data,       \* the raw record handed to Attribute.__init__
    attr,       \* the Attribute object's fields (self.*)
    attrPc,     \* position inside Attribute.__init__
    players,    \* pid -> the fields of a Player object
    teams,      \* team id -> the fields of a Team object
    ret,        \* what the last read of a derived view returned or raised
    graphArgs,  \* the arguments of Graph.__init__
    graph,      \* the constructed Graph object, or the exception raised
    heap,       \* container object id -> the list's or dict's contents
    insts       \* the instances made so far: [cls, dict: field -> container object id]

vars == <<data, attr, attrPc, players, teams, ret, graphArgs, graph,
          heap, insts>>

attrVars == <<data, attr, attrPc>>
identVars == <<players, teams, ret>>
graphVars == <<graphArgs, graph>>
contVars == <<heap, insts>>

----------------------------------------------------------------------------
(* Bounds of the model *)

\* longest raw value drawn over the byte alphabet
MaxRawLen == 3
\* most null bytes appended to a secondary-table key
MaxPad == 2

----------------------------------------------------------------------------
(* Values shared by the parts *)

None == [none |-> TRUE]

Raise(e) == [exc |-> e]

IsRaise(r) == "exc" \in DOMAIN r

RECURSIVE SeqsUpTo(_, _)
SeqsUpTo(S, n) ==
    IF n = 0 THEN {<<>>}
    ELSE LET shorter == SeqsUpTo(S, n - 1)
         IN shorter \cup {Append(s, c) : s \in {t \in shorter : Len(t) = n - 1}, c \in S}

----------------------------------------------------------------------------
(* Attribute                                                               *)

\* the byte '\x00'
NUL == "\\x00"

\* the bytes raw values are drawn from
Bytes == {NUL, "2", "T"}

StrVal(s) == [t |-> "str", v |-> s]

IntVal(n) == [t |-> "int", v |-> n]

\* sc2reader.constants.RACE_CODES: the entry the specification gives
RACE_CODES == (<<"T", "e", "r", "r">> :> <<"T", "e", "r", "r", "a", "n">>)

\* The secondary tables come from sc2reader.constants; only RACE_CODES has
\* known content, and records are drawn only with codes whose lookup is known.
SecondaryTable(name) == CASE name = "RACE_CODES" -> RACE_CODES

TableLookup(name) == [kind |-> "table", table |-> name]

\* lambda value: int(value[0])
ComputedValue == [kind |-> "callable"]

id_map ==
    (500  :> <<"Player Type", TableLookup("PLAYER_TYPE_CODES")>>) @@
    (2001 :> <<"Game Type", TableLookup("GAME_FORMAT_CODES")>>) @@
    (3000 :> <<"Game Speed", TableLookup("GAME_SPEED_CODES")>>) @@
    (3001 :> <<"Race", TableLookup("RACE_CODES")>>) @@
    (3002 :> <<"Color", TableLookup("TEAM_COLOR_CODES")>>) @@
    (3003 :> <<"Handicap", None>>) @@
    (3004 :> <<"Difficulty", TableLookup("DIFFICULTY_CODES")>>) @@
    (3009 :> <<"Category", TableLookup("GAME_TYPE_CODES")>>) @@
    (2002 :> <<"Teams1v1", ComputedValue>>) @@
    (2003 :> <<"Teams2v2", ComputedValue>>) @@
    (2004 :> <<"Teams3v3", ComputedValue>>) @@
    (2005 :> <<"Teams4v4", ComputedValue>>) @@
    (2006 :> <<"TeamsFFA", ComputedValue>>) @@
    (2007 :> <<"Teams5v5", ComputedValue>>)

\* the codes records are drawn with: two absent from id_map, one per variant
DrawnCodes == {0, 3010, 3003, 3001, 2002, 2007}

Digits == ("0" :> 0) @@ ("1" :> 1) @@ ("2" :> 2) @@ ("3" :> 3) @@ ("4" :> 4) @@
          ("5" :> 5) @@ ("6" :> 6) @@ ("7" :> 7) @@ ("8" :> 8) @@ ("9" :> 9)

\* int(c) of a one-character string
IntOfChar(c) == IF c \in DOMAIN Digits THEN IntVal(Digits[c]) ELSE Raise("ValueError")

RECURSIVE Nulls(_)
Nulls(k) == IF k = 0 THEN <<>> ELSE <<NUL>> \o Nulls(k - 1)

RawValues ==
    SeqsUpTo(Bytes, MaxRawLen)
        \cup {key \o Nulls(k) : key \in DOMAIN RACE_CODES, k \in 0..MaxPad}

\* A stripping that removes every null byte, interior ones too.
StripAllNulls(value) ==
    IF value = <<>> THEN Raise("IndexError")
    ELSE LET kept == SelectSeq(value, LAMBDA b : b # NUL)
         IN IF kept = <<>> THEN Raise("IndexError") ELSE StrVal(kept)

\* while self.value[-1] == '\x00': self.value = self.value[:-1]
RECURSIVE StripNulls(_)
StripNulls(value) ==
    IF value = <<>> THEN Raise("IndexError")
    ELSE IF value[Len(value)] = NUL
         THEN StripNulls(SubSeq(value, 1, Len(value) - 1))
         ELSE StrVal(value)

\* lines 86-92: the name and the value of a stripped attribute
Transform(id, value) ==
    IF id \in DOMAIN id_map
    THEN LET name == id_map[id][1]
             lookup == id_map[id][2]
         IN IF lookup # None
            THEN IF lookup.kind = "callable"
                 THEN [name |-> name, value |-> IntOfChar(value[1])]
                 ELSE [name |-> name,
                       value |-> IF value \in DOMAIN SecondaryTable(lookup.table)
                                 THEN StrVal(SecondaryTable(lookup.table)[value])
                                 ELSE Raise("KeyError")]
            ELSE [name |-> name, value |-> StrVal(value)]
    ELSE [name |-> "Unknown", value |-> StrVal(value)]

AttrInit ==
    /\ data \in [header : {0}, id : DrawnCodes, player : {1}, value : RawValues]
    /\ attr = [header |-> data.header, id |-> data.id, player |-> data.player,
               value |-> StrVal(data.value), name |-> "Unknown"]
    /\ attrPc = "unpacked"
    /\ players = None
    /\ teams = None
    /\ ret = None
    /\ graphArgs = None
    /\ graph = None
    /\ heap = None
    /\ insts = None

\* line 84
Strip ==
    /\ attrPc = "unpacked"
    /\ LET r == StripNulls(attr.value.v)
       IN IF IsRaise(r)
          THEN /\ attrPc' = "raised"
               /\ attr' = r
          ELSE /\ attrPc' = "stripped"
               /\ attr' = [attr EXCEPT !.value = r]
    /\ UNCHANGED data
    /\ UNCHANGED <<identVars, graphVars, contVars>>

\* lines 86-92
Lookup ==
    /\ attrPc = "stripped"
    /\ LET r == Transform(attr.id, attr.value.v)
       IN IF IsRaise(r.value)
          THEN /\ attrPc' = "raised"
               /\ attr' = r.value
          ELSE /\ attrPc' = "constructed"
               /\ attr' = [attr EXCEPT !.name = r.name, !.value = r.value]
    /\ UNCHANGED data
    /\ UNCHANGED <<identVars, graphVars, contVars>>


----------------------------------------------------------------------------
(* Team and Player                                                         *)

\* most Player objects
MaxPlayers == 2
\* longest Team.players list
MaxTeamLen == 2

PIDs == 1..MaxPlayers

\* the Team objects; "None" is the reference to no team
TIDs == {"t1", "t2"}

Results == {"Win", "Loss", "Unknown"}

Names == {<<"a">>, <<"b", ",">>}

Gateways == {<<"u", "s">>, <<>>}

Uids == {0, 7}

Subregions == {0, 1}

Regions == {<<"u", "s">>}

\* Player's class-level attributes (with the ones inherited from Person)
PlayerClass ==
    [name |-> <<>>, team |-> "None", region |-> <<>>, subregion |-> 0]

\* Team.__init__(number)
NewTeam(number) ==
    [number |-> number, players |-> <<>>, result |-> "Unknown", lineup |-> <<>>]

\* Player.__init__(pid, name): the instance attributes it leaves set
NewPlayer(pid, name) == [pid |-> pid, name |-> name]

\* attribute lookup on a Player: the instance, then the class
HasAttr(p, f) == f \in DOMAIN players[p] \/ f \in DOMAIN PlayerClass

GetAttr(p, f) == IF f \in DOMAIN players[p] THEN players[p][f] ELSE PlayerClass[f]

\* str(n) of a natural number
RECURSIVE IntToStr(_)
IntToStr(n) ==
    LET d == CHOOSE c \in DOMAIN Digits : Digits[c] = n % 10
    IN IF n < 10 THEN <<d>> ELSE IntToStr(n \div 10) \o <<d>>

\* "http://%s.battle.net/sc2/en/profile/%s/%s/%s/"
URL_TEMPLATE(a, b, c, d) ==
    <<"h", "t", "t", "p", ":", "/", "/">> \o a
        \o <<".", "b", "a", "t", "t", "l", "e", ".", "n", "e", "t", "/",
             "s", "c", "2", "/", "e", "n", "/",
             "p", "r", "o", "f", "i", "l", "e", "/">>
        \o b \o <<"/">> \o c \o <<"/">> \o d \o <<"/">>

\* Player.url
Url(p) ==
    IF ~HasAttr(p, "gateway") \/ ~HasAttr(p, "uid")
    THEN Raise("AttributeError")
    ELSE StrVal(URL_TEMPLATE(GetAttr(p, "gateway"), IntToStr(GetAttr(p, "uid")),
                             IntToStr(GetAttr(p, "subregion")), GetAttr(p, "name")))

\* whether team t's players list holds player p
Listed(t, p) == \E i \in DOMAIN teams[t].players : teams[t].players[i] = p

\* A result found through the players lists instead of the team reference.
PlayerResultByMembership(p) ==
    LET listing == {t \in TIDs : Listed(t, p)}
    IN IF listing # {}
       THEN StrVal(teams[CHOOSE t \in listing : TRUE].result)
       ELSE IF GetAttr(p, "team") = "None"
            THEN Raise("AttributeError")
            ELSE StrVal(teams[GetAttr(p, "team")].result)

\* Player.result: self.team.result; None has no attribute 'result'
PlayerResult(p) ==
    IF GetAttr(p, "team") = "None"
    THEN Raise("AttributeError")
    ELSE StrVal(teams[GetAttr(p, "team")].result)

\* the byte values of the characters that occur in urls
Ord ==
    ("," :> 44) @@ ("." :> 46) @@ ("/" :> 47) @@ ("0" :> 48) @@ ("1" :> 49) @@
    ("2" :> 50) @@ ("3" :> 51) @@ ("4" :> 52) @@ ("5" :> 53) @@ ("6" :> 54) @@
    ("7" :> 55) @@ ("8" :> 56) @@ ("9" :> 57) @@ (":" :> 58) @@ ("a" :> 97) @@
    ("b" :> 98) @@ ("c" :> 99) @@ ("e" :> 101) @@ ("f" :> 102) @@ ("h" :> 104) @@
    ("i" :> 105) @@ ("l" :> 108) @@ ("n" :> 110) @@ ("o" :> 111) @@ ("p" :> 112) @@
    ("r" :> 114) @@ ("s" :> 115) @@ ("t" :> 116) @@ ("u" :> 117)

\* a < b on byte strings
StrLess(a, b) ==
    LET n == IF Len(a) < Len(b) THEN Len(a) ELSE Len(b)
        diff == {i \in 1..n : a[i] # b[i]}
    IN IF diff = {} THEN Len(a) < Len(b)
       ELSE LET i == CHOOSE k \in diff : \A j \in diff : k <= j
            IN Ord[a[i]] < Ord[b[i]]

\* one string put in its place in an ascending list
RECURSIVE Insert(_, _)
Insert(s, sorted) ==
    IF sorted = <<>> THEN <<s>>
    ELSE IF StrLess(s, Head(sorted)) THEN <<s>> \o sorted
         ELSE <<Head(sorted)>> \o Insert(s, Tail(sorted))

\* A list left in the order it has.
Unsorted(list) == list

\* sorted(list)
RECURSIVE Sorted(_)
Sorted(list) == IF list = <<>> THEN <<>> ELSE Insert(Head(list), Sorted(Tail(list)))

\* sep.join(list)
RECURSIVE Join(_, _)
Join(sep, list) ==
    IF list = <<>> THEN <<>>
    ELSE IF Len(list) = 1 THEN list[1]
         ELSE list[1] \o sep \o Join(sep, Tail(list))

\* hashlib.sha256(s).hexdigest(): the digest stands for its preimage
Sha256Hex(s) == [sha256 |-> s]

\* what the players' url reads give, in the order of team t's players list
PlayerUrls(t) == [i \in DOMAIN teams[t].players |-> Url(teams[t].players[i])]

\* the body of Team.hash on what the url reads gave: the first failing read
\* ends it, else the sorted urls are joined and digested
HashOfUrls(urls) ==
    LET failing == {i \in DOMAIN urls : IsRaise(urls[i])}
    IN IF failing # {}
       THEN urls[CHOOSE i \in failing : \A j \in failing : i <= j]
       ELSE Sha256Hex(Join(<<",">>, Sorted([i \in DOMAIN urls |-> urls[i].v])))

\* Team.hash
Hash(t) == HashOfUrls(PlayerUrls(t))

\* after the constructors: every Player and Team as __init__ leaves it
ConstructedInit ==
    /\ \E names \in [PIDs -> Names] :
          players = [p \in PIDs |-> NewPlayer(p, names[p])]
    /\ teams = [t \in TIDs |-> NewTeam(IF t = "t1" THEN 1 ELSE 2)]
    /\ ret = None
    /\ data = None
    /\ attr = None
    /\ attrPc = "idle"
    /\ graphArgs = None
    /\ graph = None
    /\ heap = None
    /\ insts = None

\* after the constructors, the players named alike
ResultInit ==
    /\ players = [p \in PIDs |-> NewPlayer(p, <<"a">>)]
    /\ teams = [t \in TIDs |-> NewTeam(IF t = "t1" THEN 1 ELSE 2)]
    /\ ret = None
    /\ data = None
    /\ attr = None
    /\ attrPc = "idle"
    /\ graphArgs = None
    /\ graph = None
    /\ heap = None
    /\ insts = None

\* the profile url of the player called name on gateway us, uid 7,
\* subregion 1
ProfileOf(name) == URL_TEMPLATE(<<"u", "s">>, IntToStr(7), IntToStr(1), name)

\* the name a player of that identity carries when its url reads as the
\* profile urls of the players called names, with commas between them
EmbeddedName(names) ==
    LET joined == Join(<<",">>, [i \in DOMAIN names |-> ProfileOf(names[i])])
        prefix == Len(ProfileOf(<<>>)) - 1
    IN SubSeq(joined, prefix + 1, Len(joined) - 1)

\* player names of the hashed team: plain ones, and names that hold a comma
\* and the text of other players' urls
HashNames ==
    {<<"a">>, <<"b">>,
     EmbeddedName(<<(<<"a">>), (<<"b">>)>>),
     EmbeddedName(<<(<<"b">>), (<<"a">>)>>),
     EmbeddedName(<<(<<"a">>), (<<"b">>), (<<"a">>)>>)}

\* a state the constructors and the replay reader's assignments lead to:
\* no team has a player yet, and the players have their battle.net identity
\* or still lack the gateway
HashInit ==
    /\ \E names \in [PIDs -> HashNames] :
          players = [p \in PIDs |->
                       ("gateway" :> <<"u", "s">>) @@ ("uid" :> 7) @@
                       ("subregion" :> 1) @@ NewPlayer(p, names[p])]
          \/ players = [p \in PIDs |->
                          ("uid" :> 7) @@ NewPlayer(p, names[p])]
    /\ teams = [t \in TIDs |-> NewTeam(IF t = "t1" THEN 1 ELSE 2)]
    /\ ret = None
    /\ data = None
    /\ attr = None
    /\ attrPc = "idle"
    /\ graphArgs = None
    /\ graph = None
    /\ heap = None
    /\ insts = None

\* player.<field> = value
SetAttr(p, f, v) ==
    /\ players' = [players EXCEPT ![p] = (f :> v) @@ @]
    /\ ret' = None
    /\ UNCHANGED teams
    /\ UNCHANGED <<attrVars, graphVars, contVars>>

\* player.team = team
SetTeam(p, t) ==
    /\ players' = [players EXCEPT ![p] = ("team" :> t) @@ @]
    /\ ret' = None
    /\ UNCHANGED teams
    /\ UNCHANGED <<attrVars, graphVars, contVars>>

\* player.result = value: the property has no setter
AssignResult(p, r) ==
    /\ ret' = [op |-> "set result", obj |-> p, val |-> Raise("AttributeError")]
    /\ UNCHANGED <<players, teams>>
    /\ UNCHANGED <<attrVars, graphVars, contVars>>

\* team.players.append(player), of a player the list does not hold yet
AddPlayer(t, p) ==
    /\ Len(teams[t].players) < MaxTeamLen
    /\ ~Listed(t, p)
    /\ teams' = [teams EXCEPT ![t].players = Append(@, p)]
    /\ ret' = None
    /\ UNCHANGED players
    /\ UNCHANGED <<attrVars, graphVars, contVars>>

\* a reordering of team.players: two neighbours change places
Reorder(t, i) ==
    /\ i \in 1..(Len(teams[t].players) - 1)
    /\ teams' = [teams EXCEPT ![t].players =
                    [@ EXCEPT ![i] = teams[t].players[i + 1],
                              ![i + 1] = teams[t].players[i]]]
    /\ ret' = None
    /\ UNCHANGED players
    /\ UNCHANGED <<attrVars, graphVars, contVars>>

\* team.result = r
SetResult(t, r) ==
    /\ teams' = [teams EXCEPT ![t].result = r]
    /\ ret' = None
    /\ UNCHANGED players
    /\ UNCHANGED <<attrVars, graphVars, contVars>>

ReadUrl(p) ==
    /\ ret' = [op |-> "url", obj |-> p, val |-> Url(p)]
    /\ UNCHANGED <<players, teams>>
    /\ UNCHANGED <<attrVars, graphVars, contVars>>

ReadResult(p) ==
    /\ ret' = [op |-> "result", obj |-> p, val |-> PlayerResult(p)]
    /\ UNCHANGED <<players, teams>>
    /\ UNCHANGED <<attrVars, graphVars, contVars>>

ReadHash(t) ==
    /\ ret' = [op |-> "hash", obj |-> t, val |-> Hash(t)]
    /\ UNCHANGED <<players, teams>>
    /\ UNCHANGED <<attrVars, graphVars, contVars>>

----------------------------------------------------------------------------
(* Graph                                                                   *)

\* longest sequence handed to Graph.__init__
MaxGraphLen == 2

Times == {0, 1}

Values == {5}

\* an argument left at its default None, or given
NoArg == [given |-> FALSE]

Arg(v) == [given |-> TRUE, v |-> v]

\* the truth value of an optional list: None and [] are false
Truthy(a) == a.given /\ a.v # <<>>

\* Graph.__init__(x, y, xy_list)
GraphNew(x, y, xy_list) ==
    IF Truthy(xy_list)
    THEN [times |-> [i \in DOMAIN xy_list.v |-> xy_list.v[i][1]],
          values |-> [i \in DOMAIN xy_list.v |-> xy_list.v[i][2]]]
    ELSE [times |-> x, values |-> y]


GraphInit ==
    /\ graphArgs \in [x : SeqsUpTo(Times, MaxGraphLen),
                      y : SeqsUpTo(Values, MaxGraphLen),
                      xy_list : {NoArg} \cup
                                {Arg(l) : l \in SeqsUpTo(Times \X Values, MaxGraphLen)}]
    /\ graph = None
    /\ data = None
    /\ attr = None
    /\ attrPc = "idle"
    /\ players = None
    /\ teams = None
    /\ ret = None
    /\ heap = None
    /\ insts = None

Construct ==
    /\ graph = None
    /\ graph' = GraphNew(graphArgs.x, graphArgs.y, graphArgs.xy_list)
    /\ UNCHANGED graphArgs
    /\ UNCHANGED <<attrVars, identVars, contVars>>

----------------------------------------------------------------------------
(* The containers of Team, Person and PlayerSummary instances              *)

\* most instances made
MaxInsts == 3
\* most entries put into one container
MaxItems == 2

Classes == {"Team", "Person", "PlayerSummary"}

\* the containers made once, in the class bodies: field -> container object id
ClassAttrs ==
    [Team |-> [players |-> 1],
     Person |-> [messages |-> 2, events |-> 3],
     PlayerSummary |-> [unknown2 |-> 4, stats |-> 5]]

\* the fields that hold a dict; the others hold a list
DictFields == {"unknown2", "stats"}

\* the container fields __init__ assigns on self, in the order it assigns them
InitFields ==
    [Team |-> <<"players">>,
     Person |-> <<"messages", "events">>,
     PlayerSummary |-> <<>>]

\* what is put into the containers: list elements, and dict keys and values
Elems == {"e"}

Keys == {"R", "U"}

Vals == {1}

\* the next unused container object id
Fresh == Cardinality(DOMAIN heap) + 1

\* attribute lookup: the instance's own dict, then the class
Resolve(i, f) ==
    IF f \in DOMAIN insts[i].dict THEN insts[i].dict[f]
    ELSE ClassAttrs[insts[i].cls][f]

View(i, f) == heap[Resolve(i, f)]


\* after the class bodies have run: five empty class-level containers
ContInit ==
    /\ heap = [o \in 1..5 |-> <<>>]
    /\ insts = <<>>
    /\ data = None
    /\ attr = None
    /\ attrPc = "idle"
    /\ players = None
    /\ teams = None
    /\ ret = None
    /\ graphArgs = None
    /\ graph = None

\* Team(number), Person(pid, name), PlayerSummary(pid)
NewInstance(cls) ==
    /\ Len(insts) < MaxInsts
    /\ LET fs == InitFields[cls]
           dict == [f \in {fs[k] : k \in DOMAIN fs} |->
                      Fresh - 1 + CHOOSE k \in DOMAIN fs : fs[k] = f]
       IN /\ insts' = Append(insts, [cls |-> cls, dict |-> dict])
          /\ heap' = [o \in 1..(Fresh - 1 + Len(fs)) |->
                        IF o \in DOMAIN heap THEN heap[o] ELSE <<>>]
    /\ UNCHANGED <<attrVars, identVars, graphVars>>

\* instance.<list field>.append(e)
AppendTo(i, f, e) ==
    /\ f \notin DictFields
    /\ Len(View(i, f)) < MaxItems
    /\ heap' = [heap EXCEPT ![Resolve(i, f)] = Append(@, e)]
    /\ UNCHANGED insts
    /\ UNCHANGED <<attrVars, identVars, graphVars>>

\* instance.<dict field>[k] = v
PutInto(i, f, k, v) ==
    /\ f \in DictFields
    /\ LET d == View(i, f)
           at == {n \in DOMAIN d : d[n][1] = k}
       IN IF at # {}
          THEN heap' = [heap EXCEPT ![Resolve(i, f)] =
                          [n \in DOMAIN d |-> IF n \in at THEN <<k, v>> ELSE d[n]]]
          ELSE /\ Len(d) < MaxItems
               /\ heap' = [heap EXCEPT ![Resolve(i, f)] = Append(d, <<k, v>>)]
    /\ UNCHANGED insts
    /\ UNCHANGED <<attrVars, identVars, graphVars>>

----------------------------------------------------------------------------
(* Specifications                                                          *)

\* Attribute.__init__ on one raw record
AttributeNext == Strip \/ Lookup

SpecAttribute == AttrInit /\ [][AttributeNext]_vars

\* players are given a team reference and join one team's list, teams are
\* given results, and Player.result is read
ResultNext ==
    \/ \E p \in PIDs, t \in TIDs : SetTeam(p, t)
    \/ \E p \in PIDs, t \in TIDs : (\A u \in TIDs : ~Listed(u, p)) /\ AddPlayer(t, p)
    \/ \E t \in TIDs, r \in Results : SetResult(t, r)
    \/ \E p \in PIDs : AssignResult(p, "Win")
    \/ \E p \in PIDs : ReadResult(p)

SpecResult == ResultInit /\ [][ResultNext]_vars

\* the identity fields of players assigned, and Player.url read
UrlNext ==
    \/ \E p \in PIDs, v \in Gateways : SetAttr(p, "gateway", v)
    \/ \E p \in PIDs, v \in Uids : SetAttr(p, "uid", v)
    \/ \E p \in PIDs, v \in Subregions : SetAttr(p, "subregion", v)
    \/ \E p \in PIDs, v \in Regions : SetAttr(p, "region", v)
    \/ \E p \in PIDs, v \in Names \cup {<<>>} : SetAttr(p, "name", v)
    \/ \E p \in PIDs : ReadUrl(p)

SpecUrl == ConstructedInit /\ [][UrlNext]_vars

\* a team of players: players join, the list is reordered, identities
\* change, and Team.hash is read
HashNext ==
    \/ \E p \in PIDs : AddPlayer("t1", p)
    \/ \E i \in 1..MaxTeamLen : Reorder("t1", i)
    \/ \E p \in PIDs, v \in HashNames : SetAttr(p, "name", v)
    \/ \E p \in PIDs : SetAttr(p, "gateway", <<"u", "s">>)
    \/ ReadHash("t1")

SpecHash == HashInit /\ [][HashNext]_vars

\* Graph.__init__ on one set of arguments
GraphNext == Construct

SpecGraph == GraphInit /\ [][GraphNext]_vars

\* instances made and their containers filled
ContainersNext ==
    \/ \E cls \in Classes : NewInstance(cls)
    \/ \E i \in DOMAIN insts, e \in Elems :
          \E f \in DOMAIN ClassAttrs[insts[i].cls] : AppendTo(i, f, e)
    \/ \E i \in DOMAIN insts, k \in Keys, v \in Vals :
          \E f \in DOMAIN ClassAttrs[insts[i].cls] : PutInto(i, f, k, v)

SpecContainers == ContInit /\ [][ContainersNext]_vars

----------------------------------------------------------------------------
(* Claims about Attribute                                                  *)

AllNull(raw) == \A i \in DOMAIN raw : raw[i] = NUL

\* the raw value without its trailing null bytes: the prefix that ends at
\* the last non-null byte
NullStripped(raw) ==
    LET last == {i \in DOMAIN raw : raw[i] # NUL /\ \A j \in (i + 1)..Len(raw) : raw[j] = NUL}
    IN IF last = {} THEN <<>> ELSE SubSeq(raw, 1, CHOOSE i \in last : TRUE)

\* C1: every raw record whose code is absent from id_map decodes, without
\* an error, to an Attribute named "Unknown" whose value is the raw value
\* without its trailing null bytes, as a string, no transform applied.
C1_UnknownCodeKeepsStrippedValue ==
    data.id \notin DOMAIN id_map =>
        /\ attrPc # "raised"
        /\ attrPc = "constructed" =>
              /\ attr.name = "Unknown"
              /\ attr.value = StrVal(NullStripped(data.value))

\* C2: for a raw value that is a prefix ending in a non-null byte followed by
\* k >= 0 null bytes, the stripping step leaves exactly that prefix: the k
\* trailing nulls are gone, interior nulls and everything else are kept.
C2_StripRemovesExactlyTrailingNulls ==
    ~AllNull(data.value) =>
        /\ attrPc = "stripped" =>
              /\ attr.value.t = "str"
              /\ attr.value.v # <<>>
              /\ attr.value.v[Len(attr.value.v)] # NUL
              /\ \E k \in 0..Len(data.value) :
                    data.value = attr.value.v \o Nulls(k)
        /\ attrPc = "raised" => attr # Raise("IndexError")

\* a value with an interior null and trailing nulls has been stripped
C2_Witness ==
    /\ attrPc = "stripped"
    /\ Len(attr.value.v) < Len(data.value)
    /\ \E i \in DOMAIN attr.value.v : attr.value.v[i] = NUL

\* C3: a record whose raw value is one or more null bytes and nothing else is
\* stripped to the empty string without an error.
C3_AllNullStripsToEmpty ==
    (Len(data.value) >= 1 /\ AllNull(data.value)) =>
        /\ attrPc = "stripped" => attr.value = StrVal(<<>>)
        /\ attrPc = "raised" => attr # Raise("IndexError")

\* C4: every raw record whose code is in id_map decodes to the table's name
\* and, by the entry's transform: none, the stripped string; a table, the
\* table's entry for the stripped string, or a lookup error when it has
\* none; a computed value, the integer of the stripped string's first
\* character.
C4_KnownCodeAppliesTransform ==
    (data.id \in DOMAIN id_map /\ attrPc \in {"constructed", "raised"}) =>
        LET name == id_map[data.id][1]
            lookup == id_map[data.id][2]
            stripped == NullStripped(data.value)
        IN IF lookup = None
           THEN /\ attrPc = "constructed"
                /\ attr.name = name
                /\ attr.value = StrVal(stripped)
           ELSE IF lookup.kind = "table"
           THEN IF stripped \in DOMAIN SecondaryTable(lookup.table)
                THEN /\ attrPc = "constructed"
                     /\ attr.name = name
                     /\ attr.value = StrVal(SecondaryTable(lookup.table)[stripped])
                ELSE /\ attrPc = "raised"
                     /\ attr = Raise("KeyError")
           ELSE (stripped # <<>> /\ stripped[1] \in DOMAIN Digits) =>
                     /\ attrPc = "constructed"
                     /\ attr.name = name
                     /\ attr.value = IntVal(Digits[stripped[1]])

----------------------------------------------------------------------------
(* Claims about Team and Player                                            *)

IsRead(r, op) == "op" \in DOMAIN r /\ r.op = op

\* every player of team t has a url
UrlsDefined(t) == \A i \in DOMAIN teams[t].players : ~IsRaise(Url(teams[t].players[i]))

\* the urls of team t's players, in the order of its players list
TeamUrls(t) == [i \in DOMAIN teams[t].players |-> Url(teams[t].players[i]).v]

Rearrangements(list) ==
    LET n == Len(list)
        perms == {f \in [1..n -> 1..n] : \A i, j \in 1..n : f[i] = f[j] => i = j}
    IN {[i \in 1..n |-> list[f[i]]] : f \in perms}

Ascending(list) == \A i \in 1..(Len(list) - 1) : ~StrLess(list[i + 1], list[i])

\* the digest of the urls in ascending order with single commas between them
DigestOfUrls(urls) ==
    Sha256Hex(Join(<<",">>, CHOOSE l \in Rearrangements(urls) : Ascending(l)))

\* no url of the list holds a comma
CommaFree(urls) == \A i \in DOMAIN urls : \A k \in DOMAIN urls[i] : urls[i][k] # ","

C5_OriginalStep ==
    /\ \A t \in TIDs :
          (IsRead(ret', "hash") /\ ret'.obj = t /\ UrlsDefined(t)') =>
              ret'.val = DigestOfUrls(TeamUrls(t)')
    /\ \A t \in TIDs :
          (UrlsDefined(t) /\ UrlsDefined(t)') =>
              /\ HashOfUrls(PlayerUrls(t)') = DigestOfUrls(TeamUrls(t)')
              /\ TeamUrls(t)' \in Rearrangements(TeamUrls(t))
                    => HashOfUrls(PlayerUrls(t)') = Hash(t)
              /\ (teams'[t].players = teams[t].players /\ TeamUrls(t)' # TeamUrls(t))
                    => HashOfUrls(PlayerUrls(t)') # Hash(t)

\* C5 as stated: Team.hash is computed from the team's current players at
\* every read: after additions, reorderings and changes of identity fields it
\* is the digest of the players' urls in ascending order joined by single
\* commas; reordering the players leaves it as it is, and any change of a
\* player's url changes it.
C5_AnyUrlChangeChangesHash == [][C5_OriginalStep]_vars

C5_Step ==
    /\ \A t \in TIDs :
          (IsRead(ret', "hash") /\ ret'.obj = t /\ UrlsDefined(t)') =>
              ret'.val = DigestOfUrls(TeamUrls(t)')
    /\ \A t \in TIDs :
          (UrlsDefined(t) /\ UrlsDefined(t)') =>
              /\ HashOfUrls(PlayerUrls(t)') = DigestOfUrls(TeamUrls(t)')
              /\ TeamUrls(t)' \in Rearrangements(TeamUrls(t))
                    => HashOfUrls(PlayerUrls(t)') = Hash(t)
              /\ (/\ teams'[t].players = teams[t].players
                  /\ TeamUrls(t)' # TeamUrls(t)
                  /\ CommaFree(TeamUrls(t))
                  /\ CommaFree(TeamUrls(t)'))
                    => HashOfUrls(PlayerUrls(t)') # Hash(t)

\* C5: Team.hash is computed from the team's current players at every read:
\* after additions, reorderings and changes of identity fields it is the
\* digest of the players' urls in ascending order joined by single commas;
\* reordering the players leaves it as it is, and a change of a player's
\* url changes it when no url of the team's players, before or after the
\* change, holds a comma.
C5_HashOfCurrentSortedUrls == [][C5_Step]_vars

\* the hash has been read of a team whose players list is not in url order
\* and whose urls hold no comma
C5_Witness ==
    /\ IsRead(ret, "hash")
    /\ Len(teams[ret.obj].players) >= 2
    /\ UrlsDefined(ret.obj)
    /\ CommaFree(TeamUrls(ret.obj))
    /\ StrLess(TeamUrls(ret.obj)[2], TeamUrls(ret.obj)[1])
    /\ "sha256" \in DOMAIN ret.val

C6_Step ==
    /\ \A p \in PIDs :
          (IsRead(ret', "result") /\ ret'.obj = p /\ GetAttr(p, "team")' # "None") =>
              ret'.val = StrVal(teams'[GetAttr(p, "team")'].result)
    /\ \A t \in TIDs :
          teams'[t].result # teams[t].result =>
              /\ players' = players
              /\ \A p \in PIDs :
                    GetAttr(p, "team") = t => PlayerResult(p)' = StrVal(teams'[t].result)
    /\ \A p \in PIDs :
          /\ "result" \notin DOMAIN players'[p]
          /\ PlayerResult(p)' # PlayerResult(p) =>
                \/ GetAttr(p, "team")' # GetAttr(p, "team")
                \/ /\ GetAttr(p, "team") # "None"
                   /\ teams'[GetAttr(p, "team")].result # teams[GetAttr(p, "team")].result

\* C6: a Player stores no result of its own: whatever is assigned to
\* team.result, and in whatever order, reading Player.result gives the
\* current team.result of the team the player's team reference names, with
\* no change made to any player.
C6_ResultDelegatesToTeam == [][C6_Step]_vars

\* two players refer to one team, its result was set to "Win", and one of
\* them, listed by no team or by another one, read "Win"
C6_Witness ==
    /\ IsRead(ret, "result")
    /\ ret.val = StrVal("Win")
    /\ \A p \in PIDs : GetAttr(p, "team") = GetAttr(ret.obj, "team")
    /\ ~Listed(GetAttr(ret.obj, "team"), ret.obj)

\* C7: reading Player.result of a Player whose team reference was never
\* assigned fails with an error of its own kind (IllegalState), not with the
\* error a dereference of None gives and not with a default value.
C7_UnsetTeamIsIllegalState ==
    (IsRead(ret, "result") /\ GetAttr(ret.obj, "team") = "None") =>
        ret.val = Raise("IllegalState")

\* the four components of a url are assigned and none is empty or zero
CompleteIdentity(p) ==
    /\ "gateway" \in DOMAIN players[p] /\ players[p].gateway # <<>>
    /\ "uid" \in DOMAIN players[p] /\ players[p].uid # 0
    /\ "subregion" \in DOMAIN players[p] /\ players[p].subregion # 0
    /\ "name" \in DOMAIN players[p] /\ players[p].name # <<>>

\* C8: Player.url gives the profile url only when region (gateway), uid,
\* subregion and name are all assigned and none is empty or at its default;
\* otherwise the read fails and no url is returned.
C8_UrlNeedsCompleteIdentity ==
    IsRead(ret, "url") =>
        IF CompleteIdentity(ret.obj)
        THEN ret.val = StrVal(URL_TEMPLATE(players[ret.obj].gateway,
                                           IntToStr(players[ret.obj].uid),
                                           IntToStr(players[ret.obj].subregion),
                                           players[ret.obj].name))
        ELSE IsRaise(ret.val)

----------------------------------------------------------------------------
(* Claims about Graph and the containers                                   *)

\* C9: a constructed Graph has as many times as values: parallel sequences
\* of unequal length are refused with an error and give no Graph, and a
\* list of pairs gives sequences of equal length.
C9_GraphLengthsAgree ==
    graph # None =>
        /\ ~IsRaise(graph) => Len(graph.times) = Len(graph.values)
        /\ (~Truthy(graphArgs.xy_list) /\ Len(graphArgs.x) # Len(graphArgs.y))
              => IsRaise(graph)

C10_Step ==
    /\ \A i \in DOMAIN insts' :
          i \notin DOMAIN insts =>
              \A f \in DOMAIN ClassAttrs[insts'[i].cls] : View(i, f)' = <<>>
    /\ \A i, j \in DOMAIN insts :
          (i # j /\ insts[i].cls = insts[j].cls) =>
              \A f \in DOMAIN ClassAttrs[insts[i].cls] :
                  View(i, f)' # View(i, f) => View(j, f)' = View(j, f)

\* C10: Team, Person and PlayerSummary instances share no container: a new
\* instance's players, messages, events, stats and unknown2 are empty, and
\* putting something into one instance's container changes no other
\* instance's container of that field.
C10_NoSharedContainers == [][C10_Step]_vars

====
